---------------------------- MODULE Spec2Model ----------------------------
(***************************************************************************)
(* ClinicBot availability and reservation engine.                          *)
(*                                                                         *)
(*   - slot engine      app/services/slot_engine.py                        *)
(*   - slots endpoint   app/api/v1/slots.py                                *)
(*   - booking path     app/api/v1/appointments.py                         *)
(*                                                                         *)
(* Conventions.  A "HH:MM" string is the pair <<h, m>>.  A calendar date   *)
(* is a day number (day 0 is a Monday).  A timezone is its UTC offset in   *)
(* minutes (fixed-offset zones such as the default Asia/Kolkata; zones     *)
(* with daylight saving are not covered).  A timezone-aware datetime is    *)
(* [wall, off]: local wall-clock minutes since 00:00 of day 0, and the     *)
(* offset.  UTC timestamps are seconds since 00:00 UTC of day 0.           *)
(***************************************************************************)
EXTENDS Integers, Sequences, FiniteSets, TLC

VARIABLES
    appointments,   \* the appointments table: sequence of rows, id = index
    pc,             \* per request handler: where it stands
    req,            \* per request handler: the request it is serving
    resp,           \* the latest response a handler returned
    eng,            \* slot-engine harness: inputs and the outputs of two calls
    rsv,            \* reserve_consecutive_slots harness: input and output
    cf,             \* conflict-test harness: proposed/existing interval, verdicts
    race,           \* concurrent-booking harness: the request, each handler's outcome
    bot             \* WhatsApp bot: one user's session context, the last message sent

vars == <<appointments, pc, req, resp, eng, rsv, cf, race, bot>>

\* the booking path's variables and the harnesses' variables
main_vars == <<appointments, pc, req, resp>>
harness_vars == <<eng, rsv, cf, race, bot>>

---------------------------------------------------------------------------
(* Bounds of the model *)

\* rows the appointments table may hold
MaxAppts == 2

\* concurrent request handlers (web workers)
NumProcs == 2

\* distinct values uuid4().hex[:6] is drawn from
NumSeeds == 2

---------------------------------------------------------------------------
(* Program constants *)

\* pytz offset of the default timezone "Asia/Kolkata" (+05:30), in minutes
KolkataOffset == 330

\* base slot width hard-coded by reserve_consecutive_slots
BaseSlotMins == 15

NoDoctor == 0       \* doctor_id_filter = None
NoAppt == 0         \* "no row" result of .first()

---------------------------------------------------------------------------
(* slot_engine.py : helpers *)

\* parse_hm: "HH:MM" -> time of day (minutes since midnight; times compare
\* as (hour, minute), i.e. as this number)
parse_hm(hm) == hm[1] * 60 + hm[2]

\* localize_dt: combine date + time and attach the timezone
localize_dt(d, t, tz) == [wall |-> d * 1440 + t, off |-> tz]

\* utc_ts: aware datetime -> UTC timestamp in seconds
utc_ts(dt_with_tz) == (dt_with_tz.wall - dt_with_tz.off) * 60

\* aware datetime + timedelta(minutes = n)
plus_minutes(dt, n) == [wall |-> dt.wall + n, off |-> dt.off]

\* aware datetimes compare by the instant they denote
dt_le(a, b) == utc_ts(a) <= utc_ts(b)

\* strftime("%Y-%m-%dT%H:%M:%z") as the tuple <<date, hour, minute, offset>>
strftime_local(dt) ==
    <<dt.wall \div 1440, (dt.wall % 1440) \div 60, dt.wall % 60, dt.off>>

\* strftime("%A").lower() of a day number (day 0 is a Monday)
day_name(d) ==
    LET names == <<"monday", "tuesday", "wednesday", "thursday", "friday",
                   "saturday", "sunday">>
    IN names[(d % 7) + 1]

Min2(a, b) == IF a <= b THEN a ELSE b
Max2(a, b) == IF a >= b THEN a ELSE b

\* a timing value of None / a missing key
NoTiming ==
    [present |-> FALSE, closed |-> TRUE, start |-> <<0, 0>>, end |-> <<0, 0>>,
     lunch_break |-> [enabled |-> FALSE, start |-> <<0, 0>>, end |-> <<0, 0>>]]

\* _get_timing_for_day
get_timing_for_day(clinic_timing, dname) ==
    IF dname = "sunday"
    THEN IF clinic_timing.sunday_closed THEN NoTiming ELSE clinic_timing.weekdays
    ELSE IF dname = "saturday"
    THEN LET sat == clinic_timing.saturday
         IN IF (~sat.present) \/ sat.closed THEN NoTiming ELSE sat
    ELSE clinic_timing.weekdays

\* _get_time_blocks_for_day that forgets the lunch break
get_time_blocks_no_lunch(timing) ==
    <<<<parse_hm(timing.start), parse_hm(timing.end)>>>>

\* _get_time_blocks_for_day whose afternoon block starts at the lunch start
get_time_blocks_from_lunch_start(timing) ==
    LET start == parse_hm(timing.start)
        end   == parse_hm(timing.end)
        lunch == timing.lunch_break
    IN IF lunch.enabled
       THEN LET lstart == parse_hm(lunch.start)
                lend   == parse_hm(lunch.end)
                b1 == IF start < lstart THEN <<<<start, Min2(lstart, end)>>>> ELSE <<>>
                b2 == IF lend < end THEN <<<<Max2(lstart, start), end>>>> ELSE <<>>
            IN b1 \o b2
       ELSE <<<<start, end>>>>

\* _get_time_blocks_for_day: the open blocks of the day, split on lunch
get_time_blocks_for_day(timing) ==
    LET start == parse_hm(timing.start)
        end   == parse_hm(timing.end)
        lunch == timing.lunch_break
    IN IF lunch.enabled
       THEN LET lstart == parse_hm(lunch.start)
                lend   == parse_hm(lunch.end)
                b1 == IF start < lstart THEN <<<<start, Min2(lstart, end)>>>> ELSE <<>>
                b2 == IF lend < end THEN <<<<Max2(lend, start), end>>>> ELSE <<>>
            IN b1 \o b2
       ELSE <<<<start, end>>>>

---------------------------------------------------------------------------
(* slot_engine.py : generate_free_slots_for_day *)

\* the engine's overlap test with closed ends (touching intervals collide)
slot_conflict_closed(ap, s_utc, e_utc) ==
    ~(ap.end < s_utc \/ ap.start > e_utc)

\* the engine's overlap test of one booking against the slot [s_utc, e_utc)
slot_conflict(ap, s_utc, e_utc) ==
    ~(ap.end <= s_utc \/ ap.start >= e_utc)

\* an index of the bookings that forgets the doctor
appts_of_any_doctor(existing_appointments, doc_id) ==
    {[start |-> existing_appointments[i].start_utc_ts,
      end   |-> existing_appointments[i].end_utc_ts] :
        i \in 1..Len(existing_appointments)}

\* appts_by_doctor.get(doc_id, []): the snapshot's bookings of one doctor,
\* reduced to start/end
appts_by_doctor(existing_appointments, doc_id) ==
    LET idx == {i \in 1..Len(existing_appointments) :
                    existing_appointments[i].doctor_id = doc_id}
    IN {[start |-> existing_appointments[i].start_utc_ts,
         end   |-> existing_appointments[i].end_utc_ts] : i \in idx}

\* the while loop over one block: the free slots of one doctor in
\* generation order (slot_id is filled in afterwards, in the same order)
RECURSIVE walk_block(_, _, _, _, _, _)
walk_block(cursor, block_end_dt, doc_id, slot_interval, buffer_mins, doc_appts) ==
    IF dt_le(plus_minutes(cursor, slot_interval), block_end_dt)
    THEN LET slot_end == plus_minutes(cursor, slot_interval)
             s_utc == utc_ts(cursor)
             e_utc == utc_ts(slot_end)
             conflict == \E ap \in doc_appts : slot_conflict(ap, s_utc, e_utc)
             rest == walk_block(plus_minutes(cursor, slot_interval + buffer_mins),
                                block_end_dt, doc_id, slot_interval, buffer_mins,
                                doc_appts)
             slot == [doctor_id    |-> doc_id,
                      start_local  |-> strftime_local(cursor),
                      end_local    |-> strftime_local(slot_end),
                      start_utc_ts |-> s_utc,
                      end_utc_ts   |-> e_utc,
                      duration_mins |-> slot_interval]
         IN IF conflict THEN rest ELSE <<slot>> \o rest
    ELSE <<>>

\* the loop over the blocks of the day, for one doctor
RECURSIVE walk_blocks(_, _, _, _, _, _, _)
walk_blocks(blocks, target_date, tz, doc_id, slot_interval, buffer_mins, doc_appts) ==
    IF blocks = <<>> THEN <<>>
    ELSE walk_block(localize_dt(target_date, Head(blocks)[1], tz),
                    localize_dt(target_date, Head(blocks)[2], tz),
                    doc_id, slot_interval, buffer_mins, doc_appts)
         \o walk_blocks(Tail(blocks), target_date, tz, doc_id, slot_interval,
                        buffer_mins, doc_appts)

\* the loop over the candidate doctors
RECURSIVE walk_doctors(_, _, _, _, _, _, _)
walk_doctors(docs, blocks, target_date, tz, slot_interval, buffer_mins, existing) ==
    IF docs = <<>> THEN <<>>
    ELSE walk_blocks(blocks, target_date, tz, Head(docs), slot_interval,
                     buffer_mins, appts_by_doctor(existing, Head(docs)))
         \o walk_doctors(Tail(docs), blocks, target_date, tz, slot_interval,
                         buffer_mins, existing)

\* uuid.uuid4().hex[:6] of the k-th slot generated by a call: random, drawn
\* per call (seed) and per slot
uuid4_hex6(seed, k) == (seed + k) % NumSeeds

\* f"{date}_{doc_id}_{uuid4().hex[:6]}"
slot_id(target_date, slot, seed, k) ==
    <<target_date, slot.doctor_id, uuid4_hex6(seed, k)>>

with_slot_ids(slots, target_date, seed) ==
    [k \in 1..Len(slots) |->
        [slot_id       |-> slot_id(target_date, slots[k], seed, k),
         doctor_id     |-> slots[k].doctor_id,
         start_local   |-> slots[k].start_local,
         end_local     |-> slots[k].end_local,
         start_utc_ts  |-> slots[k].start_utc_ts,
         end_utc_ts    |-> slots[k].end_utc_ts,
         duration_mins |-> slots[k].duration_mins]]

\* the sort key (start_utc_ts, doctor_id), compared as Python compares tuples
key_le(a, b) ==
    \/ a.start_utc_ts < b.start_utc_ts
    \/ a.start_utc_ts = b.start_utc_ts /\ a.doctor_id <= b.doctor_id

\* list.sort is stable: the place of element i in the sorted list is the
\* number of elements with a smaller key, or an equal key and an index <= i
sort_rank(s, i) ==
    Cardinality({j \in 1..Len(s) :
                    \/ ~key_le(s[i], s[j])
                    \/ key_le(s[j], s[i]) /\ j <= i})

sort_by_key(s) ==
    LET rank == [i \in 1..Len(s) |-> sort_rank(s, i)]
    IN [k \in 1..Len(s) |-> s[CHOOSE i \in 1..Len(s) : rank[i] = k]]

\* a "sort" that leaves the generation order (doctor by doctor)
sort_slots_unsorted(s) == s

\* free_slots.sort(key=lambda x: (x["start_utc_ts"], x["doctor_id"]))
sort_slots(s) == sort_by_key(s)

\* the doctors the call generates slots for
candidate_doctors(doctors, doctor_id_filter) ==
    SelectSeq(doctors, LAMBDA d : doctor_id_filter = NoDoctor \/ d = doctor_id_filter)

\* slot_interval_mins or 60 // slots_per_hour   (0 stands for a missing key)
slot_interval_of(appt_cfg) ==
    IF appt_cfg.slot_interval_mins # 0 THEN appt_cfg.slot_interval_mins
    ELSE 60 \div appt_cfg.slots_per_hour

generate_free_slots_for_day(config, target_date, existing_appointments, doctor_id_filter, seed) ==
    LET tz == config.timezone
        timing == get_timing_for_day(config.clinic_timing, day_name(target_date))
    IN IF (~timing.present) \/ timing.closed THEN <<>>
       ELSE LET slot_interval == slot_interval_of(config.appointment_config)
                buffer_mins == config.appointment_config.buffer_mins
                blocks == get_time_blocks_for_day(timing)
                cands == candidate_doctors(config.doctors, doctor_id_filter)
            IN IF cands = <<>> THEN <<>>
               ELSE sort_slots(with_slot_ids(
                        walk_doctors(cands, blocks, target_date, tz, slot_interval,
                                     buffer_mins, existing_appointments),
                        target_date, seed))

---------------------------------------------------------------------------
(* Harness of the slot engine: inputs drawn from EngInputs, then two calls  *)
(* of generate_free_slots_for_day on the same inputs.                       *)

NoLunch == [enabled |-> FALSE, start |-> <<0, 0>>, end |-> <<0, 0>>]

LunchTimes == {<<9, 30>>, <<10, 0>>, <<10, 30>>, <<11, 10>>, <<12, 0>>, <<12, 30>>}

Lunches ==
    {NoLunch} \cup {[enabled |-> TRUE, start |-> ls, end |-> le] :
                        ls \in LunchTimes, le \in LunchTimes}

Timing(s, e, l) ==
    [present |-> TRUE, closed |-> FALSE, start |-> s, end |-> e, lunch_break |-> l]

\* a full working day: 09:00-17:00 with lunch 13:00-14:00
FullDay ==
    Timing(<<9, 0>>, <<17, 0>>,
           [enabled |-> TRUE, start |-> <<13, 0>>, end |-> <<14, 0>>])

\* short days 10:00-12:00 with every lunch of Lunches (some malformed), days
\* whose end is not after their start, and the full working day
WeekdayTimings ==
    {Timing(<<10, 0>>, e, l) : e \in {<<12, 0>>, <<9, 0>>}, l \in Lunches}
    \cup {FullDay}

\* appointment_config: the one built by _build_clinic_config (15 + 5), the
\* same without buffer, and one without slot_interval_mins (60 // 2)
AppointmentConfigs ==
    {[slot_interval_mins |-> 15, slots_per_hour |-> 4, buffer_mins |-> 5],
     [slot_interval_mins |-> 15, slots_per_hour |-> 4, buffer_mins |-> 0],
     [slot_interval_mins |-> 0,  slots_per_hour |-> 2, buffer_mins |-> 0]}

DoctorLists == {<<1>>, <<1, 2>>}

\* a booking of the snapshot, given in local time of day `d`
Booking(doc, d, from_hm, to_hm, tz) ==
    [doctor_id    |-> doc,
     start_utc_ts |-> utc_ts(localize_dt(d, parse_hm(from_hm), tz)),
     end_utc_ts   |-> utc_ts(localize_dt(d, parse_hm(to_hm), tz))]

Snapshots(d, tz) ==
    LET a == Booking(1, d, <<10, 15>>, <<10, 45>>, tz)
        b == Booking(2, d, <<10, 0>>, <<10, 15>>, tz)
    IN {<<>>, <<a>>, <<b>>, <<a, b>>}

\* the config dict; closed_dates is filled in by ClosedOn
EngConfig(weekdays, saturday, sunday_closed, ac, docs) ==
    [timezone |-> KolkataOffset,
     clinic_timing |-> [weekdays |-> weekdays, saturday |-> saturday,
                        sunday_closed |-> sunday_closed, closed_dates |-> <<>>],
     appointment_config |-> ac,
     doctors |-> docs]

EngInput(config, d, existing, filter) ==
    [config |-> config, target_date |-> d, existing |-> existing,
     filter |-> filter, calls |-> 0, out1 |-> <<>>, out2 |-> <<>>]

\* the config with the clinic's closed dates (holidays) set to `dates`
ClosedOn(config, dates) == [config EXCEPT !.clinic_timing.closed_dates = dates]

\* the closed-date lists of the clinic: none, or day 0 a holiday
ClosedDateLists == {<<>>, <<0>>}

\* weekday queries (day 0, a Monday) over every weekday timing
EngWeekdayInputs ==
    {EngInput(ClosedOn(EngConfig(w, NoTiming, TRUE, ac, docs), cd), 0, ex, f) :
        w \in WeekdayTimings, ac \in AppointmentConfigs, docs \in DoctorLists,
        ex \in Snapshots(0, KolkataOffset), f \in {NoDoctor, 1, 2},
        cd \in ClosedDateLists}

\* weekend queries (day 5 a Saturday, day 6 a Sunday)
EngWeekendInputs ==
    {EngInput(EngConfig(w, sat, sc, ac, <<1>>), d, <<>>, NoDoctor) :
        w \in {NoTiming, Timing(<<10, 0>>, <<12, 0>>, NoLunch)},
        sat \in {NoTiming,
                 [Timing(<<10, 0>>, <<11, 0>>, NoLunch) EXCEPT !.closed = TRUE],
                 Timing(<<10, 0>>, <<11, 0>>, NoLunch)},
        sc \in BOOLEAN, ac \in AppointmentConfigs, d \in {5, 6}}

EngInputs == EngWeekdayInputs \cup EngWeekendInputs

EngIdle == EngInput(EngConfig(NoTiming, NoTiming, TRUE,
                     [slot_interval_mins |-> 15, slots_per_hour |-> 4,
                      buffer_mins |-> 5], <<>>), 0, <<>>, NoDoctor)

RsvIdle == [called |-> FALSE]

CfIdle == [booking |-> "unchecked", engine |-> "unchecked"]

RaceIdle == [started |-> FALSE]

\* a new session: "context": {}, and nothing sent yet
BotIdle == [context |-> [k \in {} |-> ""], sent |-> "none"]

Procs == 1..NumProcs

MainIdle ==
    /\ appointments = <<>>
    /\ pc = [p \in Procs |-> "idle"]
    /\ req = [p \in Procs |-> [kind |-> "none"]]
    /\ resp = [code |-> 0]

InitSlots ==
    /\ MainIdle
    /\ eng \in EngInputs
    /\ rsv = RsvIdle
    /\ cf = CfIdle
    /\ race = RaceIdle
    /\ bot = BotIdle

\* GetFreeSlots, first call
GenerateFirst ==
    /\ eng.calls = 0
    /\ \E seed \in 0..(NumSeeds - 1) :
          eng' = [eng EXCEPT !.calls = 1,
                    !.out1 = generate_free_slots_for_day(eng.config, eng.target_date,
                                                         eng.existing, eng.filter, seed)]
    /\ UNCHANGED <<main_vars, rsv, cf, race, bot>>

\* GetFreeSlots, second call with the same config, date and snapshot
GenerateSecond ==
    /\ eng.calls = 1
    /\ \E seed \in 0..(NumSeeds - 1) :
          eng' = [eng EXCEPT !.calls = 2,
                    !.out2 = generate_free_slots_for_day(eng.config, eng.target_date,
                                                         eng.existing, eng.filter, seed)]
    /\ UNCHANGED <<main_vars, rsv, cf, race, bot>>

NextSlots == GenerateFirst \/ GenerateSecond

SpecSlots == InitSlots /\ [][NextSlots]_vars

---------------------------------------------------------------------------
(* Properties of the slot engine (checked under SpecSlots)                 *)

\* the outputs of the calls made so far
EngOuts ==
    (IF eng.calls >= 1 THEN {eng.out1} ELSE {})
    \cup (IF eng.calls >= 2 THEN {eng.out2} ELSE {})

\* the timing the engine resolves for the queried day
EngTiming == get_timing_for_day(eng.config.clinic_timing, day_name(eng.target_date))

\* the half-open overlap predicate of the data model
Overlap(a_start, a_end, b_start, b_end) == a_start < b_end /\ b_start < a_end

SlotsOverlap(a, b) ==
    Overlap(a.start_utc_ts, a.end_utc_ts, b.start_utc_ts, b.end_utc_ts)

SortedByStart(out) ==
    \A i \in 1..(Len(out) - 1) : out[i].start_utc_ts <= out[i + 1].start_utc_ts

SortedByKey(out) ==
    \A i \in 1..(Len(out) - 1) : key_le(out[i], out[i + 1])

\* local time of day (minutes) of a slot's start label
SlotStartTod(slot) == slot.start_local[2] * 60 + slot.start_local[3]

LunchNotInverted(timing) ==
    timing.lunch_break.enabled =>
        parse_hm(timing.lunch_break.start) <= parse_hm(timing.lunch_break.end)

C6_NoSlotStartsInLunch ==
    (EngTiming.present /\ EngTiming.lunch_break.enabled) =>
        \A out \in EngOuts : \A i \in 1..Len(out) :
            ~(/\ parse_hm(EngTiming.lunch_break.start) <= SlotStartTod(out[i])
              /\ SlotStartTod(out[i]) < parse_hm(EngTiming.lunch_break.end))

\* C6 witness: a lunch break strictly inside the open interval, and the
\* call returned slots both before and after it.
C6_Witness ==
    /\ eng.calls >= 1
    /\ EngTiming.present /\ EngTiming.lunch_break.enabled
    /\ parse_hm(EngTiming.start) < parse_hm(EngTiming.lunch_break.start)
    /\ parse_hm(EngTiming.lunch_break.start) < parse_hm(EngTiming.lunch_break.end)
    /\ parse_hm(EngTiming.lunch_break.end) < parse_hm(EngTiming.end)
    /\ \E i, j \in 1..Len(eng.out1) :
          /\ SlotStartTod(eng.out1[i]) < parse_hm(EngTiming.lunch_break.start)
          /\ SlotStartTod(eng.out1[j]) >= parse_hm(EngTiming.lunch_break.end)

\* C7 as stated: two calls with the identical config, date and snapshot
\* return identical output, field for field, slot_id included.
C7_TwoCallsIdentical ==
    eng.calls = 2 => eng.out1 = eng.out2

\* the scenario of C8: open 09:00-17:00, lunch 13:00-14:00, 15-minute slots,
\* buffer 0, one doctor, no bookings, and the call has been made
C8_Scenario ==
    /\ eng.calls >= 1
    /\ day_name(eng.target_date) = "monday"
    /\ eng.config.clinic_timing.weekdays = FullDay
    /\ slot_interval_of(eng.config.appointment_config) = 15
    /\ eng.config.appointment_config.buffer_mins = 0
    /\ eng.config.doctors = <<1>>
    /\ eng.filter \in {NoDoctor, 1}
    /\ eng.existing = <<>>

CountSlots(out, from_tod, to_tod) ==
    Cardinality({i \in 1..Len(out) :
                    from_tod <= SlotStartTod(out[i]) /\ SlotStartTod(out[i]) < to_tod})

\* C8 as stated: the scenario yields exactly 32 slots, 16 before lunch and
\* 16 after lunch.
C8_ThirtyTwoSlots ==
    C8_Scenario =>
        /\ Len(eng.out1) = 32
        /\ CountSlots(eng.out1, 0, 13 * 60) = 16
        /\ CountSlots(eng.out1, 14 * 60, 24 * 60) = 16

\* C8 amended: the scenario yields exactly 28 slots, 16 before lunch
\* (09:00-13:00) and 12 after lunch (14:00-17:00).
C8_TwentyEightSlots ==
    C8_Scenario =>
        /\ Len(eng.out1) = 28
        /\ CountSlots(eng.out1, 0, 13 * 60) = 16
        /\ CountSlots(eng.out1, 14 * 60, 24 * 60) = 12

\* C8 witness: the scenario was generated, first slot 09:00, last 16:45.
C8_Witness ==
    /\ C8_Scenario
    /\ Len(eng.out1) > 0
    /\ SlotStartTod(eng.out1[1]) = 9 * 60
    /\ SlotStartTod(eng.out1[Len(eng.out1)]) = 16 * 60 + 45

\* doctor and interval of a slot
SlotKey(slot) == <<slot.doctor_id, slot.start_utc_ts, slot.end_utc_ts>>

\* the candidate slots of the query: what the same query yields on a day
\* without bookings
Candidates ==
    generate_free_slots_for_day(eng.config, eng.target_date, <<>>, eng.filter, 0)

\* the candidate overlaps no supplied booking of its own doctor
OverlapsNoOwnBooking(c) ==
    \A k \in 1..Len(eng.existing) :
        eng.existing[k].doctor_id = c.doctor_id
            => ~Overlap(c.start_utc_ts, c.end_utc_ts,
                        eng.existing[k].start_utc_ts, eng.existing[k].end_utc_ts)

\* C23: a candidate slot is returned if and only if it overlaps none of the
\* supplied bookings of its own doctor; bookings of other doctors remove
\* nothing.
C23_FreeIffNoOverlap ==
    eng.calls >= 1 =>
        LET cand == Candidates
        IN /\ Len(cand) >= 0
           /\ \A out \in EngOuts :
                 {SlotKey(out[k]) : k \in 1..Len(out)}
                    = {SlotKey(cand[k]) :
                          k \in {n \in 1..Len(cand) : OverlapsNoOwnBooking(cand[n])}}

\* C23 witness: doctor 1 is booked 10:15-10:45 and doctor 2 10:00-10:15; the
\* 10:00 slot of doctor 1 is returned, its 10:15 slot is not.
C23_Witness ==
    /\ eng.calls >= 1
    /\ Len(eng.existing) = 2
    /\ eng.filter = 1
    /\ \E k \in 1..Len(eng.out1) :
          /\ eng.out1[k].doctor_id = 1
          /\ eng.out1[k].start_local = strftime_local(
                    localize_dt(0, parse_hm(<<10, 0>>), KolkataOffset))
    /\ LET cand == Candidates
       IN \E k \in 1..Len(cand) :
             /\ cand[k].start_local = strftime_local(
                    localize_dt(0, parse_hm(<<10, 15>>), KolkataOffset))
             /\ \A n \in 1..Len(eng.out1) : SlotKey(eng.out1[n]) # SlotKey(cand[k])

\* the blocks the hours resolver returns for the target day
EngBlocks == get_time_blocks_for_day(EngTiming)

\* C24: for a day timing with start < end and the lunch break enabled the
\* resolver returns an ordered list of pairwise-disjoint, non-empty blocks,
\* none of which intersects [lunch_start, lunch_end); a lunch interval
\* inside the open interval that touches the opening or the closing time
\* (not both) yields exactly one block.
C24_BlocksDisjointOutsideLunch ==
    (/\ eng.calls >= 1
     /\ EngTiming.present /\ ~EngTiming.closed
     /\ parse_hm(EngTiming.start) < parse_hm(EngTiming.end)
     /\ EngTiming.lunch_break.enabled)
        => LET blocks == EngBlocks
               lstart == parse_hm(EngTiming.lunch_break.start)
               lend   == parse_hm(EngTiming.lunch_break.end)
           IN /\ \A k \in 1..Len(blocks) : blocks[k][1] < blocks[k][2]
              /\ \A k \in 1..(Len(blocks) - 1) : blocks[k][2] <= blocks[k + 1][1]
              /\ \A k \in 1..Len(blocks) :
                    ~Overlap(blocks[k][1], blocks[k][2], lstart, lend)
              /\ (/\ parse_hm(EngTiming.start) <= lstart
                  /\ lstart < lend
                  /\ lend <= parse_hm(EngTiming.end)
                  /\ (lstart = parse_hm(EngTiming.start))
                        # (lend = parse_hm(EngTiming.end)))
                    => Len(blocks) = 1

\* the target date is one of the clinic's closed dates
OnClosedDate ==
    \E k \in 1..Len(eng.config.clinic_timing.closed_dates) :
        eng.config.clinic_timing.closed_dates[k] = eng.target_date

\* C14: for a target date in the clinic's closed-date set the availability
\* computation returns no slots, whatever the weekday hours are.
C14_ClosedDateNoSlots ==
    OnClosedDate => \A out \in EngOuts : out = <<>>

\* the hours of the target day are malformed: the day's end is not after its
\* start, or the lunch interval is inverted or not inside the open interval
MalformedHours(timing) ==
    \/ parse_hm(timing.end) <= parse_hm(timing.start)
    \/ /\ timing.lunch_break.enabled
       /\ \/ parse_hm(timing.lunch_break.end) < parse_hm(timing.lunch_break.start)
          \/ parse_hm(timing.lunch_break.start) < parse_hm(timing.start)
          \/ parse_hm(timing.lunch_break.end) > parse_hm(timing.end)

\* C15: on a day whose hours are malformed, slot generation never returns a
\* slot list (empty or not); it fails with a configuration error.
C15_MalformedConfigFails ==
    (EngTiming.present /\ ~EngTiming.closed /\ MalformedHours(EngTiming))
        => EngOuts = {}

---------------------------------------------------------------------------
(* slot_engine.py : reserve_consecutive_slots *)

\* slot.get("available", True)
slot_available(slot) ==
    IF "available" \in DOMAIN slot THEN slot.available ELSE TRUE

\* a contiguity test that accepts any later slot
is_consecutive_any(prev, slot) == slot["start_utc_ts"] >= prev["end_utc_ts"]

\* slot["start_utc_ts"] == prev["end_utc_ts"]
is_consecutive(prev, slot) == slot["start_utc_ts"] = prev["end_utc_ts"]

\* required_blocks = service_duration // 15
required_blocks_of(service_duration) == service_duration \div BaseSlotMins

\* required_slots as create_service and update_service store it
required_slots(duration_minutes) == (duration_minutes + 14) \div 15

\* the result None
NoneResult == [is_none |-> TRUE, chain |-> <<>>]

\* a for loop that empties the chain on a gap instead of restarting it at
\* the slot after the gap
RECURSIVE reserve_scan_drop_on_gap(_, _, _, _)
reserve_scan_drop_on_gap(day_slots, i, current_chain, required_blocks) ==
    IF i > Len(day_slots) THEN NoneResult
    ELSE LET slot == day_slots[i]
             chain ==
                IF slot_available(slot)
                THEN IF current_chain = <<>> THEN <<slot>>
                     ELSE IF is_consecutive(current_chain[Len(current_chain)], slot)
                          THEN Append(current_chain, slot)
                          ELSE <<>>
                ELSE <<>>
         IN IF Len(chain) = required_blocks
            THEN [is_none |-> FALSE, chain |-> chain]
            ELSE reserve_scan_drop_on_gap(day_slots, i + 1, chain, required_blocks)

\* the for loop, from slot i on, with the chain built so far
RECURSIVE reserve_scan(_, _, _, _)
reserve_scan(day_slots, i, current_chain, required_blocks) ==
    IF i > Len(day_slots) THEN NoneResult
    ELSE LET slot == day_slots[i]
             chain ==
                IF slot_available(slot)
                THEN IF current_chain = <<>> THEN <<slot>>
                     ELSE IF is_consecutive(current_chain[Len(current_chain)], slot)
                          THEN Append(current_chain, slot)
                          ELSE <<slot>>
                ELSE <<>>
         IN IF Len(chain) = required_blocks
            THEN [is_none |-> FALSE, chain |-> chain]
            ELSE reserve_scan(day_slots, i + 1, chain, required_blocks)

reserve_consecutive_slots(day_slots, service_duration) ==
    IF day_slots = <<>> THEN NoneResult
    ELSE reserve_scan(day_slots, 1, <<>>, required_blocks_of(service_duration))

---------------------------------------------------------------------------
(* Harness of reserve_consecutive_slots: a sorted list of 15-minute slots  *)
(* of one doctor-day drawn from a grid, and one call.                      *)

\* local start times of the grid, 09:45 .. 11:30
GridTimes ==
    <<<<9, 45>>, <<10, 0>>, <<10, 15>>, <<10, 30>>, <<10, 45>>, <<11, 0>>,
      <<11, 15>>, <<11, 30>>>>

\* per grid time: not in the list, in the list, in the list but marked
\* available = False
GridMarks == {"absent", "free", "booked"}

GridSlot(k, mark) ==
    LET s == utc_ts(localize_dt(0, parse_hm(GridTimes[k]), KolkataOffset))
    IN [start_utc_ts |-> s, end_utc_ts |-> s + BaseSlotMins * 60,
        available |-> (mark = "free")]

RECURSIVE GridSlotsFrom(_, _)
GridSlotsFrom(marks, k) ==
    IF k > Len(GridTimes) THEN <<>>
    ELSE (IF marks[k] = "absent" THEN <<>> ELSE <<GridSlot(k, marks[k])>>)
         \o GridSlotsFrom(marks, k + 1)

ServiceDurations == {10, 15, 30, 45, 50}

InitReserve ==
    /\ MainIdle
    /\ eng = EngIdle
    /\ cf = CfIdle
    /\ race = RaceIdle
    /\ bot = BotIdle
    /\ \E marks \in [1..Len(GridTimes) -> GridMarks] : \E d \in ServiceDurations :
          rsv = [marks |-> marks, day_slots |-> GridSlotsFrom(marks, 1),
                 service_duration |-> d, called |-> FALSE, result |-> NoneResult]

Reserve ==
    /\ ~rsv.called
    /\ rsv' = [rsv EXCEPT !.called = TRUE,
                  !.result = reserve_consecutive_slots(rsv.day_slots,
                                                       rsv.service_duration)]
    /\ UNCHANGED <<main_vars, eng, cf, race, bot>>

NextReserve == Reserve

SpecReserve == InitReserve /\ [][NextReserve]_vars

\* index in GridTimes of a local time
GridIndex(hm) == CHOOSE k \in 1..Len(GridTimes) : GridTimes[k] = hm

MarkAt(hm) == rsv.marks[GridIndex(hm)]

GridStart(hm) == utc_ts(localize_dt(0, parse_hm(hm), KolkataOffset))

\* the call returned a run and the run starts at the local time hm
RunStartsAt(hm) ==
    /\ ~rsv.result.is_none
    /\ rsv.result.chain # <<>>
    /\ rsv.result.chain[1].start_utc_ts = GridStart(hm)

\* the scenario of C9: a 45-minute service; the list starts at 10:00;
\* 10:00, 10:15 and 10:45 are free and 10:30 is booked (left out of the
\* list or marked unavailable)
C9_Scenario ==
    /\ rsv.called
    /\ rsv.service_duration = 45
    /\ MarkAt(<<9, 45>>) = "absent"
    /\ MarkAt(<<10, 0>>) = "free"
    /\ MarkAt(<<10, 15>>) = "free"
    /\ MarkAt(<<10, 30>>) # "free"
    /\ MarkAt(<<10, 45>>) = "free"

\* C9: in the scenario the call needs 3 contiguous slots: it returns no run
\* starting at 10:00, and it returns a run starting at 10:45 if and only if
\* 10:45, 11:00 and 11:15 are all free; a returned run has 3 slots.
C9_ThreeContiguousSlots ==
    C9_Scenario =>
        /\ ~RunStartsAt(<<10, 0>>)
        /\ RunStartsAt(<<10, 45>>)
              <=> (MarkAt(<<11, 0>>) = "free" /\ MarkAt(<<11, 15>>) = "free")
        /\ ~rsv.result.is_none => Len(rsv.result.chain) = 3

\* C9 witness: the scenario with 11:00 and 11:15 free, and the run
\* 10:45, 11:00, 11:15 returned.
C9_Witness ==
    /\ C9_Scenario
    /\ RunStartsAt(<<10, 45>>)
    /\ Len(rsv.result.chain) = 3
    /\ rsv.result.chain[3].start_utc_ts = GridStart(<<11, 15>>)

\* C17: a run returned by reserve_consecutive_slots has exactly
\* ceil(d / 15) slots, the required_slots stored for a service of duration d.
C17_CeilSlots ==
    (rsv.called /\ ~rsv.result.is_none)
        => Len(rsv.result.chain) = required_slots(rsv.service_duration)

\* the required count N of the call
RequiredCount == rsv.service_duration \div 15

\* the list holds a run of n free slots from index i on, each starting where
\* the previous one ends
HasRunAt(i, n) ==
    /\ i + n - 1 <= Len(rsv.day_slots)
    /\ \A k \in i..(i + n - 1) : slot_available(rsv.day_slots[k])
    /\ \A k \in i..(i + n - 2) :
          rsv.day_slots[k + 1].start_utc_ts = rsv.day_slots[k].end_utc_ts

RunStarts(n) == {i \in 1..Len(rsv.day_slots) : HasRunAt(i, n)}

\* C21: for a required count N >= 1 the call returns a list exactly when the
\* list of the day's slots holds N free slots in a row, each starting at the
\* previous one's end; the list returned is the earliest such run and has
\* exactly N slots; otherwise the call returns none.
C21_EarliestRun ==
    (rsv.called /\ RequiredCount >= 1) =>
        /\ rsv.result.is_none <=> (RunStarts(RequiredCount) = {})
        /\ ~rsv.result.is_none =>
              LET first == CHOOSE i \in RunStarts(RequiredCount) :
                              \A j \in RunStarts(RequiredCount) : i <= j
              IN /\ Len(rsv.result.chain) = RequiredCount
                 /\ rsv.result.chain =
                       SubSeq(rsv.day_slots, first, first + RequiredCount - 1)

\* C21 witness: a 45-minute service on a list of free slots only whose
\* first slots do not form a run; the run returned starts later in the list.
C21_Witness ==
    /\ rsv.called
    /\ rsv.service_duration = 45
    /\ \A k \in 1..Len(rsv.day_slots) : rsv.day_slots[k].available
    /\ ~rsv.result.is_none
    /\ Len(rsv.result.chain) = 3
    /\ rsv.result.chain[1] # rsv.day_slots[1]
    /\ rsv.result.chain[1] # rsv.day_slots[2]

---------------------------------------------------------------------------
(* Harness of the reservation pipeline: the slots of a day without         *)
(* bookings are generated, then reserve_consecutive_slots runs on them.    *)

\* days without bookings, queried for doctor 1, and a service duration
InitPipeline ==
    /\ MainIdle
    /\ cf = CfIdle
    /\ race = RaceIdle
    /\ bot = BotIdle
    /\ eng \in {e \in EngWeekdayInputs :
                    e.existing = <<>> /\ e.filter = 1
                    /\ e.config.clinic_timing.closed_dates = <<>>}
    /\ \E d \in ServiceDurations :
          rsv = [marks |-> [k \in 1..Len(GridTimes) |-> "absent"], day_slots |-> <<>>,
                 service_duration |-> d, called |-> FALSE, result |-> NoneResult]

\* reserve_consecutive_slots on the slots GetFreeSlots returned
ReserveGenerated ==
    /\ eng.calls = 1
    /\ ~rsv.called
    /\ rsv' = [rsv EXCEPT !.called = TRUE, !.day_slots = eng.out1,
                  !.result = reserve_consecutive_slots(eng.out1,
                                                       rsv.service_duration)]
    /\ UNCHANGED <<main_vars, eng, cf, race, bot>>

NextPipeline == GenerateFirst \/ ReserveGenerated

SpecPipeline == InitPipeline /\ [][NextPipeline]_vars

\* the policy _build_clinic_config configures: 15-minute slots, 5-minute buffer
ConfiguredPolicy ==
    [slot_interval_mins |-> 15, slots_per_hour |-> 4, buffer_mins |-> 5]

\* C22: with the configured policy, on a well-formed day without bookings
\* (10:00-12:00 without lunch, or 09:00-17:00 with lunch 13:00-14:00),
\* reserve_consecutive_slots over the generated slots of the doctor finds a
\* run for a service of two or more base slots (30, 45 or 50 minutes).
C22_BufferKeepsRuns ==
    (/\ rsv.called
     /\ eng.config.appointment_config = ConfiguredPolicy
     /\ EngTiming \in {FullDay, Timing(<<10, 0>>, <<12, 0>>, NoLunch)}
     /\ rsv.service_duration \div 15 >= 2)
        => ~rsv.result.is_none

---------------------------------------------------------------------------
(* Reference data of the clinic (read-only for the booking path)           *)

DoctorIds == {1, 2}

\* the services table: id = index; the first service needs 15 minutes of
\* clean-up after it, the second 15 minutes of set-up before it
Services ==
    <<[duration_minutes |-> 15, required_slots |-> required_slots(15),
       before_buffer_mins |-> 0, after_buffer_mins |-> 15, is_active |-> TRUE],
      [duration_minutes |-> 30, required_slots |-> required_slots(30),
       before_buffer_mins |-> 15, after_buffer_mins |-> 0, is_active |-> TRUE]>>

ServiceIds == 1..Len(Services)

\* the clinic_timing rows: Monday to Friday 10:00-11:00, no lunch break
ClinicTimingRows ==
    [k \in 1..5 |->
        [day_of_week |-> day_name(k - 1), is_closed |-> FALSE,
         start_time |-> <<10, 0>>, end_time |-> <<11, 0>>,
         lunch_enabled |-> FALSE, lunch_start |-> <<0, 0>>, lunch_end |-> <<0, 0>>]]

\* the closed_dates rows: day 1 is a holiday
ClosedDateRows == <<1>>

\* index of the first row of `rows` satisfying Test, or 0
FirstRow(rows, Test(_)) ==
    LET hits == {i \in 1..Len(rows) : Test(rows[i])}
    IN IF hits = {} THEN 0 ELSE CHOOSE i \in hits : \A j \in hits : i <= j

\* the last row satisfying Test, or 0 (a later row overwrites the key)
LastRow(rows, Test(_)) ==
    LET hits == {i \in 1..Len(rows) : Test(rows[i])}
    IN IF hits = {} THEN 0 ELSE CHOOSE i \in hits : \A j \in hits : i >= j

\* _build_clinic_config: the engine's config from the database rows
build_clinic_config(timings, doctors) ==
    LET sat == LastRow(timings, LAMBDA t : t.day_of_week = "saturday")
        sun == LastRow(timings, LAMBDA t : t.day_of_week = "sunday")
        wk  == FirstRow(timings, LAMBDA t : t.day_of_week \notin {"saturday", "sunday"})
    IN [timezone |-> KolkataOffset,
        clinic_timing |->
            [weekdays |->
                IF wk = 0 THEN NoTiming
                ELSE Timing(timings[wk].start_time, timings[wk].end_time,
                            IF timings[wk].lunch_enabled
                            THEN [enabled |-> TRUE, start |-> timings[wk].lunch_start,
                                  end |-> timings[wk].lunch_end]
                            ELSE NoLunch),
             saturday |->
                IF sat = 0 THEN NoTiming
                ELSE [Timing(timings[sat].start_time, timings[sat].end_time, NoLunch)
                        EXCEPT !.closed = timings[sat].is_closed],
             sunday_closed |-> IF sun = 0 THEN TRUE ELSE timings[sun].is_closed,
             closed_dates |-> ClosedDateRows],
        appointment_config |->
            [slot_interval_mins |-> 15, slots_per_hour |-> 4, buffer_mins |-> 5],
        doctors |-> doctors]

---------------------------------------------------------------------------
(* api/v1/slots.py and api/v1/appointments.py : queries *)

ActiveStatuses == {"confirmed", "pending"}

\* the existing_appointments query of get_available_slots, converted to the
\* engine's format
existing_appts_of(appts, doctor_id, date) ==
    LET idx == {i \in 1..Len(appts) :
                    /\ appts[i].doctor_id = doctor_id
                    /\ appts[i].date = date
                    /\ appts[i].status \in ActiveStatuses}
        rows == SelectSeq([i \in 1..Len(appts) |-> i], LAMBDA i : i \in idx)
    IN [k \in 1..Len(rows) |->
            [doctor_id    |-> appts[rows[k]].doctor_id,
             start_utc_ts |-> appts[rows[k]].start_utc_ts,
             end_utc_ts   |-> appts[rows[k]].end_utc_ts]]

\* get_available_slots: the free slots of a doctor on a date
get_available_slots(appts, doctor_id, date, seed) ==
    generate_free_slots_for_day(
        build_clinic_config(ClinicTimingRows, <<1, 2>>), date,
        existing_appts_of(appts, doctor_id, date), doctor_id, seed)

---------------------------------------------------------------------------
(* Harness of the weekly schedule: the clinic_timing table holds one row   *)
(* per day of the week, and the slots route is queried for one date.       *)

WeekRow(d, closed, e) ==
    [day_of_week |-> day_name(d), is_closed |-> closed,
     start_time |-> <<10, 0>>, end_time |-> e,
     lunch_enabled |-> FALSE, lunch_start |-> <<0, 0>>, lunch_end |-> <<0, 0>>]

\* the days whose row varies: Monday, Tuesday, Saturday, Sunday
VariedDays == {0, 1, 5, 6}

\* the tables: every varied day closed or open, open until 11:00 or 12:00;
\* Monday always until 11:00, Wednesday to Friday open until 11:00
WeekTables ==
    {[k \in 1..7 |->
        WeekRow(k - 1, (k - 1) \in closed, IF (k - 1) \in long THEN <<12, 0>> ELSE <<11, 0>>)] :
        closed \in SUBSET VariedDays, long \in SUBSET (VariedDays \ {0})}

InitWeek ==
    /\ MainIdle
    /\ \E rows \in WeekTables, d \in 0..6 :
          eng = [timings |-> rows, target_date |-> d, calls |-> 0, out1 |-> <<>>]
    /\ rsv = RsvIdle
    /\ cf = CfIdle
    /\ race = RaceIdle
    /\ bot = BotIdle

\* GET /slots for doctor 1 on the date, no appointments booked
QueryDay ==
    /\ eng.calls = 0
    /\ \E seed \in 0..(NumSeeds - 1) :
          eng' = [eng EXCEPT !.calls = 1,
                    !.out1 = generate_free_slots_for_day(
                                 build_clinic_config(eng.timings, <<1>>),
                                 eng.target_date, <<>>, 1, seed)]
    /\ UNCHANGED <<main_vars, rsv, cf, race, bot>>

NextWeek == QueryDay

SpecWeek == InitWeek /\ [][NextWeek]_vars

\* the row of the queried date's day of the week
DayRow == eng.timings[(eng.target_date % 7) + 1]

\* the local start times (minutes of the day) of the slots returned
DayStarts == {SlotStartTod(eng.out1[k]) : k \in 1..Len(eng.out1)}

\* C25: for each of the seven days of the week, a day whose row is marked
\* closed (a single weekday included) has no availability, and an open day's
\* slots all lie inside that day's own interval and begin at its start.
C25_DayUsesOwnRow ==
    eng.calls = 1 =>
        IF DayRow.is_closed THEN eng.out1 = <<>>
        ELSE /\ parse_hm(DayRow.start_time) \in DayStarts
             /\ \A t \in DayStarts :
                   /\ parse_hm(DayRow.start_time) <= t
                   /\ t + BaseSlotMins <= parse_hm(DayRow.end_time)
             /\ \E t \in DayStarts :
                   t + BaseSlotMins + 20 > parse_hm(DayRow.end_time)

\* a conflict query that leaves out the status filter
conflict_rows_any_status(appts, doctor_id, date, start_utc_ts, end_utc_ts, exclude_id) ==
    {i \in 1..Len(appts) :
        /\ appts[i].doctor_id = doctor_id
        /\ appts[i].date = date
        /\ i # exclude_id
        /\ appts[i].end_utc_ts > start_utc_ts
        /\ appts[i].start_utc_ts < end_utc_ts}

\* the conflict query of book_appointment and of reschedule_appointment
\* (exclude_id = NoAppt for a booking): the rows .first() may return
conflict_rows(appts, doctor_id, date, start_utc_ts, end_utc_ts, exclude_id) ==
    {i \in 1..Len(appts) :
        /\ appts[i].doctor_id = doctor_id
        /\ appts[i].date = date
        /\ appts[i].status \in ActiveStatuses
        /\ i # exclude_id
        /\ appts[i].end_utc_ts > start_utc_ts
        /\ appts[i].start_utc_ts < end_utc_ts}

\* end timestamp of a service starting at start_utc_ts
end_ts_of(start_utc_ts, service_id) ==
    start_utc_ts + (Services[service_id].duration_minutes * 60)

---------------------------------------------------------------------------
(* api/v1/appointments.py : the request handlers.  book_appointment and    *)
(* reschedule_appointment run their conflict query and their commit as     *)
(* two steps; handlers of different requests interleave between them.      *)

Dates == {0, 1}

\* start timestamps a request may carry: 10:00 and 10:15 of day 0
StartTimestamps ==
    {utc_ts(localize_dt(0, parse_hm(hm), KolkataOffset)) :
        hm \in {<<10, 0>>, <<10, 15>>}}

BookRequests ==
    [doctor_id : DoctorIds, service_id : ServiceIds, date : Dates,
     start_utc_ts : StartTimestamps]

NoReq == [kind |-> "none"]
NoResp == [code |-> 0]

\* the response handler p returns to its caller; resp holds the latest one
Response(p, body) == body

\* rows being inserted by handlers that passed their conflict query
InFlight == Cardinality({p \in Procs : pc[p] = "book_commit"})

\* book_appointment up to the conflict check
book_appointment_check(p, r) ==
    /\ pc[p] = "idle"
    /\ Len(appointments) + InFlight < MaxAppts
    /\ LET end_utc_ts == end_ts_of(r.start_utc_ts, r.service_id)
           conflicts == conflict_rows(appointments, r.doctor_id, r.date,
                                      r.start_utc_ts, end_utc_ts, NoAppt)
       IN IF conflicts # {}
          THEN /\ \E c \in conflicts :
                    resp' = Response(p, [code |-> 409, error_code |-> "SLOT_TAKEN",
                                         conflict_appointment_id |-> c])
               /\ UNCHANGED <<pc, req>>
          ELSE /\ pc' = [pc EXCEPT ![p] = "book_commit"]
               /\ req' = [req EXCEPT ![p] =
                            [kind |-> "book", doctor_id |-> r.doctor_id,
                             service_id |-> r.service_id, date |-> r.date,
                             start_utc_ts |-> r.start_utc_ts,
                             end_utc_ts |-> end_utc_ts]]
               /\ UNCHANGED resp
    /\ UNCHANGED appointments

\* the Appointment row book_appointment builds from a checked request
new_appointment(r) ==
    [doctor_id |-> r.doctor_id, service_id |-> r.service_id,
     date |-> r.date, start_utc_ts |-> r.start_utc_ts,
     end_utc_ts |-> r.end_utc_ts, status |-> "confirmed"]

\* a tail of book_appointment that hands the reminders to the task queue
\* before it commits the row
book_appointment_tail_schedule_first(appts, row, broker_up) ==
    [rows |-> IF broker_up THEN Append(appts, row) ELSE appts,
     code |-> IF broker_up THEN 201 ELSE 500]

\* book_appointment from db.add on: the row is committed, then the reminders
\* are handed to the task queue; with the broker down .delay raises and the
\* request ends in an internal error
book_appointment_tail(appts, row, broker_up) ==
    [rows |-> Append(appts, row),
     code |-> IF broker_up THEN 201 ELSE 500]

\* book_appointment from db.add to the response, the task queue's broker
\* being up or down
book_appointment_finish(p, broker_up) ==
    /\ pc[p] = "book_commit"
    /\ LET t == book_appointment_tail(appointments, new_appointment(req[p]), broker_up)
       IN /\ appointments' = t.rows
          /\ resp' = Response(p, IF t.code = 201
                                 THEN [code |-> 201, id |-> Len(t.rows)]
                                 ELSE [code |-> t.code])
    /\ pc' = [pc EXCEPT ![p] = "idle"]
    /\ req' = [req EXCEPT ![p] = NoReq]

\* book_appointment from db.add to the response, the broker being up
book_appointment_commit(p) == book_appointment_finish(p, TRUE)

\* a cancel_appointment that deletes the row
cancel_appointment_deleting(p, id) ==
    /\ pc[p] = "idle"
    /\ IF id > Len(appointments)
       THEN /\ resp' = Response(p, [code |-> 404])
            /\ UNCHANGED appointments
       ELSE /\ appointments' = SubSeq(appointments, 1, id - 1)
                                 \o SubSeq(appointments, id + 1, Len(appointments))
            /\ resp' = Response(p, [code |-> 200, id |-> id])
    /\ UNCHANGED <<pc, req>>

\* cancel_appointment
cancel_appointment(p, id) ==
    /\ pc[p] = "idle"
    /\ IF id > Len(appointments)
       THEN /\ resp' = Response(p, [code |-> 404])
            /\ UNCHANGED appointments
       ELSE IF appointments[id].status = "cancelled"
       THEN /\ resp' = Response(p, [code |-> 400])
            /\ UNCHANGED appointments
       ELSE /\ appointments' = [appointments EXCEPT ![id].status = "cancelled"]
            /\ resp' = Response(p, [code |-> 200, id |-> id])
    /\ UNCHANGED <<pc, req>>

\* reschedule_appointment up to the conflict check
reschedule_appointment_check(p, id, new_date, new_start_utc_ts) ==
    /\ pc[p] = "idle"
    /\ IF id > Len(appointments)
       THEN /\ resp' = Response(p, [code |-> 404])
            /\ UNCHANGED <<pc, req>>
       ELSE IF appointments[id].status = "cancelled"
       THEN /\ resp' = Response(p, [code |-> 400])
            /\ UNCHANGED <<pc, req>>
       ELSE LET old_appt == appointments[id]
                new_end_utc_ts == end_ts_of(new_start_utc_ts, old_appt.service_id)
                conflicts == conflict_rows(appointments, old_appt.doctor_id, new_date,
                                           new_start_utc_ts, new_end_utc_ts, id)
            IN IF conflicts # {}
               THEN /\ resp' = Response(p, [code |-> 409])
                    /\ UNCHANGED <<pc, req>>
               ELSE /\ pc' = [pc EXCEPT ![p] = "reschedule_commit"]
                    /\ req' = [req EXCEPT ![p] =
                                 [kind |-> "reschedule", id |-> id, new_date |-> new_date,
                                  new_start_utc_ts |-> new_start_utc_ts,
                                  new_end_utc_ts |-> new_end_utc_ts]]
                    /\ UNCHANGED resp
    /\ UNCHANGED appointments

\* a reschedule whose UPDATE also sets the status back to confirmed
reschedule_appointment_commit_reconfirming(p) ==
    /\ pc[p] = "reschedule_commit"
    /\ appointments' = [appointments EXCEPT
            ![req[p].id].date = req[p].new_date,
            ![req[p].id].start_utc_ts = req[p].new_start_utc_ts,
            ![req[p].id].end_utc_ts = req[p].new_end_utc_ts,
            ![req[p].id].status = "confirmed"]
    /\ resp' = Response(p, [code |-> 200, id |-> req[p].id])
    /\ pc' = [pc EXCEPT ![p] = "idle"]
    /\ req' = [req EXCEPT ![p] = NoReq]

\* reschedule_appointment from the update to the response: the UPDATE
\* writes the three changed columns of the row
reschedule_appointment_commit(p) ==
    /\ pc[p] = "reschedule_commit"
    /\ appointments' = [appointments EXCEPT
            ![req[p].id].date = req[p].new_date,
            ![req[p].id].start_utc_ts = req[p].new_start_utc_ts,
            ![req[p].id].end_utc_ts = req[p].new_end_utc_ts]
    /\ resp' = Response(p, [code |-> 200, id |-> req[p].id])
    /\ pc' = [pc EXCEPT ![p] = "idle"]
    /\ req' = [req EXCEPT ![p] = NoReq]

\* mark_completed
mark_completed(p, id) ==
    /\ pc[p] = "idle"
    /\ IF id > Len(appointments)
       THEN /\ resp' = Response(p, [code |-> 404])
            /\ UNCHANGED appointments
       ELSE /\ appointments' = [appointments EXCEPT ![id].status = "completed"]
            /\ resp' = Response(p, [code |-> 200, id |-> id])
    /\ UNCHANGED <<pc, req>>

\* mark_no_show
mark_no_show(p, id) ==
    /\ pc[p] = "idle"
    /\ IF id > Len(appointments)
       THEN /\ resp' = Response(p, [code |-> 404])
            /\ UNCHANGED appointments
       ELSE /\ appointments' = [appointments EXCEPT ![id].status = "no_show"]
            /\ resp' = Response(p, [code |-> 200, id |-> id])
    /\ UNCHANGED <<pc, req>>

Init ==
    /\ appointments = <<>>
    /\ pc = [p \in Procs |-> "idle"]
    /\ req = [p \in Procs |-> NoReq]
    /\ resp = NoResp
    /\ eng = EngIdle
    /\ rsv = RsvIdle
    /\ cf = CfIdle
    /\ race = RaceIdle
    /\ bot = BotIdle

\* the handlers as steps of the booking service
BookQuery(p, r) == book_appointment_check(p, r) /\ UNCHANGED harness_vars
BookCommit(p) == book_appointment_commit(p) /\ UNCHANGED harness_vars
Cancel(p, id) == cancel_appointment(p, id) /\ UNCHANGED harness_vars
RescheduleQuery(p, id, d, s) ==
    reschedule_appointment_check(p, id, d, s) /\ UNCHANGED harness_vars
RescheduleCommit(p) == reschedule_appointment_commit(p) /\ UNCHANGED harness_vars
MarkCompleted(p, id) == mark_completed(p, id) /\ UNCHANGED harness_vars
MarkNoShow(p, id) == mark_no_show(p, id) /\ UNCHANGED harness_vars

\* any handler serves any request
Next ==
    \E p \in Procs :
        \/ \E r \in BookRequests : BookQuery(p, r)
        \/ BookCommit(p)
        \/ \E id \in 1..MaxAppts : Cancel(p, id)
        \/ \E id \in 1..MaxAppts : \E d \in Dates : \E s \in StartTimestamps :
              RescheduleQuery(p, id, d, s)
        \/ RescheduleCommit(p)
        \/ \E id \in 1..MaxAppts : MarkCompleted(p, id)
        \/ \E id \in 1..MaxAppts : MarkNoShow(p, id)

Spec == Init /\ [][Next]_vars

---------------------------------------------------------------------------
(* Properties of the booking path (checked under Spec)                     *)

RowsOverlap(a, b) ==
    Overlap(a.start_utc_ts, a.end_utc_ts, b.start_utc_ts, b.end_utc_ts)

\* C1: no two confirmed or pending appointments of the same doctor overlap.
C1_NoDoubleBooking ==
    \A i \in 1..Len(appointments) : \A j \in 1..Len(appointments) :
        (/\ i < j
         /\ appointments[i].doctor_id = appointments[j].doctor_id
         /\ appointments[i].status \in ActiveStatuses
         /\ appointments[j].status \in ActiveStatuses)
            => ~RowsOverlap(appointments[i], appointments[j])

\* the active appointments of the doctor that overlap the request's interval
OverlappingActive(r) ==
    {i \in 1..Len(appointments) :
        /\ appointments[i].doctor_id = r.doctor_id
        /\ appointments[i].status \in ActiveStatuses
        /\ Overlap(r.start_utc_ts, end_ts_of(r.start_utc_ts, r.service_id),
                   appointments[i].start_utc_ts, appointments[i].end_utc_ts)}

\* SlotTakenError: HTTP 409 with error_code SLOT_TAKEN
IsSlotTaken(body) ==
    /\ body.code = 409
    /\ "error_code" \in DOMAIN body
    /\ body.error_code = "SLOT_TAKEN"

\* C4: a CreateBooking whose interval overlaps an existing confirmed or
\* pending appointment of the same doctor is rejected with 409 SLOT_TAKEN
\* carrying the id of an overlapping active appointment, and the
\* appointments are left unchanged.
C4_OverlapRejected ==
    [][\A p \in Procs : \A r \in BookRequests :
          (book_appointment_check(p, r) /\ OverlappingActive(r) # {})
            => /\ IsSlotTaken(resp')
               /\ resp'.conflict_appointment_id \in OverlappingActive(r)
               /\ pc'[p] = "idle"
               /\ appointments' = appointments]_vars

\* C3: every slot GetFreeSlots returns for a doctor and a date can be
\* booked at once (no write in between) for that doctor, date and the slot's
\* start_utc_ts, for every active service: the conflict check of
\* book_appointment, run on the same table, finds no conflict.
C3_RoundTrip ==
    \A d \in DoctorIds : \A date \in Dates :
        LET slots == get_available_slots(appointments, d, date, 0)
        IN \A k \in 1..Len(slots) : \A svc \in ServiceIds :
              Services[svc].is_active =>
                conflict_rows(appointments, d, date, slots[k].start_utc_ts,
                              end_ts_of(slots[k].start_utc_ts, svc), NoAppt) = {}

\* statuses that take an appointment out of the conflict checks
ReleasedStatuses == {"cancelled", "completed", "no_show"}

\* the CreateBooking request for the doctor and the interval of row i,
\* carrying the date d
Rebook(i, d) ==
    [doctor_id |-> appointments[i].doctor_id, service_id |-> appointments[i].service_id,
     date |-> d, start_utc_ts |-> appointments[i].start_utc_ts]

\* the slots of day 0 GetFreeSlots offers each doctor on an empty table
DayGrid == [doc \in DoctorIds |-> get_available_slots(<<>>, doc, 0, 0)]

\* the slots of day 0 that row i occupied and that no active appointment of
\* the doctor overlaps
ReleasedSlots(i) ==
    LET grid == DayGrid[appointments[i].doctor_id]
    IN {k \in 1..Len(grid) :
          /\ Overlap(grid[k].start_utc_ts, grid[k].end_utc_ts,
                     appointments[i].start_utc_ts, appointments[i].end_utc_ts)
          /\ \A j \in 1..Len(appointments) :
                (/\ appointments[j].doctor_id = appointments[i].doctor_id
                 /\ appointments[j].status \in ActiveStatuses)
                    => ~Overlap(grid[k].start_utc_ts, grid[k].end_utc_ts,
                                appointments[j].start_utc_ts, appointments[j].end_utc_ts)}

\* GetFreeSlots reports every released slot of every released appointment
C11_SlotsFreeAgain ==
    \A i \in 1..Len(appointments) :
        (appointments[i].status \in ReleasedStatuses /\ ReleasedSlots(i) # {}) =>
            LET doc  == appointments[i].doctor_id
                free == get_available_slots(appointments, doc, 0, 0)
            IN \A k \in ReleasedSlots(i) :
                  \E m \in 1..Len(free) :
                      /\ free[m].start_utc_ts = DayGrid[doc][k].start_utc_ts
                      /\ free[m].end_utc_ts = DayGrid[doc][k].end_utc_ts
                      /\ free[m].doctor_id = doc

\* a CreateBooking for the doctor and interval of a released appointment that
\* no active appointment overlaps passes the conflict check, and its commit
\* answers 201 with a confirmed row
C11_RebookSucceeds ==
    \A p \in Procs :
        /\ \A i \in 1..Len(appointments) : \A d \in Dates :
              (/\ appointments[i].status \in ReleasedStatuses
               /\ OverlappingActive(Rebook(i, d)) = {}
               /\ book_appointment_check(p, Rebook(i, d)))
                  => /\ pc'[p] = "book_commit"
                     /\ req'[p].start_utc_ts = appointments[i].start_utc_ts
                     /\ req'[p].end_utc_ts = appointments[i].end_utc_ts
        /\ book_appointment_commit(p)
              => /\ resp'.code = 201
                 /\ Len(appointments') = Len(appointments) + 1
                 /\ appointments'[resp'.id].status = "confirmed"
                 /\ appointments'[resp'.id].start_utc_ts = req[p].start_utc_ts

\* C11: only confirmed and pending appointments take part in conflict
\* checks: once an appointment is cancelled, completed or marked no-show, a
\* CreateBooking for the same doctor and interval succeeds if no other active
\* appointment overlaps it, and GetFreeSlots reports the slots it occupied
\* (and no active appointment overlaps) as free again.
C11_ReleasedIntervalFree == []C11_SlotsFreeAgain /\ [][C11_RebookSucceeds]_vars

\* C11 witness: a released appointment and, booked after it, a confirmed
\* appointment of the same doctor on the same interval.
C11_Witness ==
    /\ Len(appointments) = 2
    /\ appointments[1].status \in ReleasedStatuses
    /\ appointments[2].status = "confirmed"
    /\ appointments[2].doctor_id = appointments[1].doctor_id
    /\ appointments[2].start_utc_ts = appointments[1].start_utc_ts
    /\ appointments[2].end_utc_ts = appointments[1].end_utc_ts
    /\ ReleasedSlots(1) = {}
    /\ resp.code = 201

\* the other active appointments of the doctor of row id that overlap the
\* interval row id would take at start s
OtherOverlapping(id, s) ==
    {j \in 1..Len(appointments) :
        /\ j # id
        /\ appointments[j].doctor_id = appointments[id].doctor_id
        /\ appointments[j].status \in ActiveStatuses
        /\ Overlap(s, end_ts_of(s, appointments[id].service_id),
                   appointments[j].start_utc_ts, appointments[j].end_utc_ts)}

\* C12: a reschedule of an appointment that is not cancelled is rejected
\* (409) if and only if some other confirmed or pending appointment of the
\* same doctor overlaps the new interval; its own current interval never
\* blocks it, and the conflict check leaves the appointments unchanged.
C12_RescheduleRecheck ==
    [][\A p \in Procs : \A id \in 1..MaxAppts : \A d \in Dates :
       \A s \in StartTimestamps :
          (/\ id <= Len(appointments)
           /\ appointments[id].status # "cancelled"
           /\ reschedule_appointment_check(p, id, d, s))
            => /\ (pc'[p] = "idle") <=> (OtherOverlapping(id, s) # {})
               /\ pc'[p] = "idle" => resp'.code = 409
               /\ pc'[p] # "idle" => pc'[p] = "reschedule_commit"
               /\ appointments' = appointments]_vars

\* the response is a rejection
IsRejection(body) == body.code \in {400, 409}

\* C13: cancel, complete and no-show applied to a cancelled appointment are
\* each rejected, and the status stays cancelled.
C13_GuardedByNotCancelled ==
    [][\A p \in Procs : \A id \in 1..MaxAppts :
          (/\ id <= Len(appointments)
           /\ appointments[id].status = "cancelled"
           /\ \/ cancel_appointment(p, id)
              \/ mark_completed(p, id)
              \/ mark_no_show(p, id))
            => /\ IsRejection(resp')
               /\ appointments'[id].status = "cancelled"]_vars

\* the interval a booking of request r reserves once the service's buffers
\* are added
BufferedStart(r) ==
    r.start_utc_ts - Services[r.service_id].before_buffer_mins * 60

BufferedEnd(r) ==
    end_ts_of(r.start_utc_ts, r.service_id)
        + Services[r.service_id].after_buffer_mins * 60

\* C18: a booking is accepted only if [start - before_buffer,
\* end + after_buffer) overlaps no confirmed or pending appointment of the
\* doctor.  Stated for the appointments that carry the request's date, the
\* ones the conflict query looks at.
C18_BuffersReserved ==
    [][\A p \in Procs : \A r \in BookRequests :
          (book_appointment_check(p, r) /\ pc'[p] = "book_commit")
            => \A i \in 1..Len(appointments) :
                  (/\ appointments[i].doctor_id = r.doctor_id
                   /\ appointments[i].date = r.date
                   /\ appointments[i].status \in ActiveStatuses)
                     => ~Overlap(BufferedStart(r), BufferedEnd(r),
                                 appointments[i].start_utc_ts,
                                 appointments[i].end_utc_ts)]_vars

\* C19: appointment records are never deleted: in every step of every
\* handler the appointments that exist keep their identifier (their place
\* in the table), doctor and service, and the table never gets shorter.
C19_NeverDeleted ==
    [][/\ Len(appointments') >= Len(appointments)
       /\ \A i \in 1..Len(appointments) :
             /\ appointments'[i].doctor_id = appointments[i].doctor_id
             /\ appointments'[i].service_id = appointments[i].service_id]_vars

\* C19 witness: a cancelled appointment and one marked completed or no-show,
\* both still in the table after the last request on the second answered 200.
C19_Witness ==
    /\ Len(appointments) = 2
    /\ appointments[1].status = "cancelled"
    /\ appointments[2].status \in {"completed", "no_show"}
    /\ resp = [code |-> 200, id |-> 2]

\* C20: after a successful reschedule the original record still holds its
\* old interval with status cancelled, and a new record holds the new
\* interval.
C20_CancelOldCreateNew ==
    [][\A p \in Procs :
          reschedule_appointment_commit(p)
            => LET old == appointments[req[p].id]
               IN /\ appointments'[req[p].id] = [old EXCEPT !.status = "cancelled"]
                  /\ Len(appointments') = Len(appointments) + 1
                  /\ LET new == appointments'[Len(appointments')]
                     IN /\ new.doctor_id = old.doctor_id
                        /\ new.date = req[p].new_date
                        /\ new.start_utc_ts = req[p].new_start_utc_ts
                        /\ new.end_utc_ts = req[p].new_end_utc_ts
                        /\ new.status \in ActiveStatuses]_vars

\* the other active rows of the doctor of row id, carrying the same date,
\* that overlap row id in the table appts
ClashingRows(appts, id) ==
    {j \in 1..Len(appts) :
        /\ j # id
        /\ appts[j].doctor_id = appts[id].doctor_id
        /\ appts[j].date = appts[id].date
        /\ appts[j].status \in ActiveStatuses
        /\ RowsOverlap(appts[j], appts[id])}

\* C26: the write path is serial per doctor across operation kinds: a
\* reschedule that succeeds while a booking or another reschedule for an
\* overlapping interval of the same doctor and date is being served never
\* leaves its active appointment overlapping another active one (of the two
\* concurrent operations at most one succeeds, as in some serial order).
C26_RescheduleSerialPerDoctor ==
    [][\A p \in Procs :
          (/\ reschedule_appointment_commit(p)
           /\ appointments'[req[p].id].status \in ActiveStatuses)
            => ClashingRows(appointments', req[p].id) = {}]_vars

\* C29: once an appointment is cancelled, completed or no_show, no request
\* (cancel, reschedule, complete, no-show, or a booking) sets its status back
\* to confirmed or pending.
C29_TerminalStaysTerminal ==
    [][\A i \in 1..Len(appointments) :
          appointments[i].status \in ReleasedStatuses
            => /\ i <= Len(appointments')
               /\ appointments'[i].status \notin ActiveStatuses]_vars

\* a reschedule of a completed or no-show appointment has passed its
\* conflict query and is about to write the row
C29_Witness ==
    \E p \in Procs :
        /\ pc[p] = "reschedule_commit"
        /\ appointments[req[p].id].status \in {"completed", "no_show"}

---------------------------------------------------------------------------
(* Harness of serial service: a request is taken up only when no handler   *)
(* is between its conflict query and its commit.                           *)

OneAtATime == \A q \in Procs : pc[q] = "idle"

SerialBook(p, r) == OneAtATime /\ BookQuery(p, r)
SerialReschedule(p, id, d, s) == OneAtATime /\ RescheduleQuery(p, id, d, s)
SerialCancel(p, id) == OneAtATime /\ Cancel(p, id)

NextSerial ==
    \E p \in Procs :
        \/ \E r \in BookRequests : SerialBook(p, r)
        \/ BookCommit(p)
        \/ \E id \in 1..MaxAppts : \E d \in Dates : \E s \in StartTimestamps :
              SerialReschedule(p, id, d, s)
        \/ RescheduleCommit(p)
        \/ \E id \in 1..MaxAppts : SerialCancel(p, id)

SpecSerial == Init /\ [][NextSerial]_vars

\* C27: with booking and reschedule requests served strictly one at a time,
\* the UTC intervals of two confirmed or pending appointments of one doctor
\* never overlap, whatever local date each request carried.
C27_SerialNoUtcOverlap ==
    \A i \in 1..Len(appointments) :
        appointments[i].status \in ActiveStatuses =>
            {j \in 1..Len(appointments) :
                /\ j # i
                /\ appointments[j].doctor_id = appointments[i].doctor_id
                /\ appointments[j].status \in ActiveStatuses
                /\ RowsOverlap(appointments[j], appointments[i])} = {}

\* the same with every appointment of the table carrying one date
C27_SameDateVariant ==
    (\A i \in 1..Len(appointments) : appointments[i].date = 0)
        => C27_SerialNoUtcOverlap

---------------------------------------------------------------------------
(* Harness of the opening hours: requests whose date is the local date of  *)
(* their start, at times inside and outside the clinic's 10:00-11:00 day.  *)

HoursTimes == {<<10, 0>>, <<10, 45>>, <<11, 30>>}

HoursStart(d, hm) == utc_ts(localize_dt(d, parse_hm(hm), KolkataOffset))

HoursBook(p, svc, d, hm) ==
    BookQuery(p, [doctor_id |-> 1, service_id |-> svc, date |-> d,
                  start_utc_ts |-> HoursStart(d, hm)])

HoursReschedule(p, id, d, hm) == RescheduleQuery(p, id, d, HoursStart(d, hm))

NextHours ==
    \E p \in Procs :
        \/ \E svc \in ServiceIds : \E d \in Dates : \E hm \in HoursTimes :
              HoursBook(p, svc, d, hm)
        \/ BookCommit(p)
        \/ \E id \in 1..MaxAppts : \E d \in Dates : \E hm \in HoursTimes :
              HoursReschedule(p, id, d, hm)
        \/ RescheduleCommit(p)

SpecHours == Init /\ [][NextHours]_vars

\* the open blocks of the clinic's schedule on a date: none on a closed
\* date or a closed day, else the day's hours less the lunch break
OpenBlocks(d) ==
    LET ct == build_clinic_config(ClinicTimingRows, <<1, 2>>).clinic_timing
        timing == get_timing_for_day(ct, day_name(d))
    IN IF \E k \in 1..Len(ct.closed_dates) : ct.closed_dates[k] = d THEN <<>>
       ELSE IF (~timing.present) \/ timing.closed THEN <<>>
       ELSE get_time_blocks_for_day(timing)

\* the row's interval in clinic-local minutes since the start of its date
LocalFrom(row) == (row.start_utc_ts \div 60) + KolkataOffset - (row.date * 1440)
LocalTo(row) == (row.end_utc_ts \div 60) + KolkataOffset - (row.date * 1440)

InsideOpenBlock(row) ==
    LET blocks == OpenBlocks(row.date)
    IN \E k \in 1..Len(blocks) :
          blocks[k][1] <= LocalFrom(row) /\ LocalTo(row) <= blocks[k][2]

\* C28: every appointment persisted by a booking or a reschedule lies inside
\* an open block of the clinic's schedule for its date: never outside the
\* opening hours, in the lunch break or on a closed day.
C28_PersistedInsideOpenBlock ==
    \A i \in 1..Len(appointments) : InsideOpenBlock(appointments[i])

---------------------------------------------------------------------------
(* Harness of reminder scheduling: bookings whose hand-over of the         *)
(* reminders to the task queue may fail after the commit.                  *)

BookFinish(p, broker_up) ==
    book_appointment_finish(p, broker_up) /\ UNCHANGED harness_vars

NextReminders ==
    \E p \in Procs :
        \/ \E r \in BookRequests : BookQuery(p, r)
        \/ \E broker_up \in BOOLEAN : BookFinish(p, broker_up)

SpecReminders == Init /\ [][NextReminders]_vars

\* C16: a failure of reminder scheduling after the commit never rolls the
\* booking back: whenever book_appointment gets past its commit, the new
\* appointment is in the table as confirmed afterwards, whether the
\* scheduling succeeded (201) or failed (500), and no row that was
\* persisted before changes or disappears.
C16_CommitSurvivesReminderFailure ==
    [][/\ Len(appointments') >= Len(appointments)
       /\ \A i \in 1..Len(appointments) : appointments'[i] = appointments[i]
       /\ \A p \in Procs : \A broker_up \in BOOLEAN :
             book_appointment_finish(p, broker_up)
                => /\ Len(appointments') = Len(appointments) + 1
                   /\ appointments'[Len(appointments')] = new_appointment(req[p])
                   /\ appointments'[Len(appointments')].status = "confirmed"
                   /\ resp'.code = IF broker_up THEN 201 ELSE 500]_vars

\* C16 witness: a request ended in an internal error after its commit and
\* its appointment is persisted as confirmed.
C16_Witness ==
    /\ resp.code = 500
    /\ Len(appointments) >= 1
    /\ appointments[Len(appointments)].status = "confirmed"
    /\ \A p \in Procs : pc[p] = "idle"

---------------------------------------------------------------------------
(* Harness of concurrent bookings: every handler serves the same           *)
(* CreateBooking request, on an empty appointments table.                  *)

InitRace ==
    /\ MainIdle
    /\ eng = EngIdle
    /\ rsv = RsvIdle
    /\ cf = CfIdle
    /\ \E r \in BookRequests :
          race = [started |-> TRUE, request |-> r, outcome |-> [p \in Procs |-> 0]]
    /\ bot = BotIdle

\* handler p runs the conflict check of the common request
RaceQuery(p) ==
    /\ race.outcome[p] = 0
    /\ book_appointment_check(p, race.request)
    /\ race' = [race EXCEPT !.outcome[p] =
                    IF pc'[p] = "book_commit" THEN 0 ELSE resp'.code]
    /\ UNCHANGED <<eng, rsv, cf, bot>>

\* handler p commits and answers
RaceCommit(p) ==
    /\ book_appointment_commit(p)
    /\ race' = [race EXCEPT !.outcome[p] = resp'.code]
    /\ UNCHANGED <<eng, rsv, cf, bot>>

NextRace == \E p \in Procs : RaceQuery(p) \/ RaceCommit(p)

SpecRace == InitRace /\ [][NextRace]_vars

\* C2: once all N concurrent requests for the same doctor and interval are
\* answered, exactly one got 201 and persisted a row, and the other N-1
\* each got a 409.
C2_ExactlyOneWinner ==
    (race.started /\ \A p \in Procs : race.outcome[p] # 0) =>
        /\ Cardinality({p \in Procs : race.outcome[p] = 201}) = 1
        /\ Cardinality({p \in Procs : race.outcome[p] = 409}) = NumProcs - 1
        /\ Len(appointments) = 1

---------------------------------------------------------------------------
(* Harness of the conflict test: one existing appointment, one proposed    *)
(* interval of the same day, checked by the booking path and by the slot   *)
(* engine.                                                                 *)

CfTimes == {<<10, 0>>, <<10, 15>>, <<10, 30>>, <<10, 45>>, <<11, 0>>}

hm_of(minutes) == <<minutes \div 60, minutes % 60>>

CfUtc(hm) == utc_ts(localize_dt(0, parse_hm(hm), KolkataOffset))

CfIntervals == {iv \in CfTimes \X CfTimes : parse_hm(iv[2]) > parse_hm(iv[1])}

CfInputs ==
    {[proposed |-> [start |-> ps, service_id |-> svc],
      existing |-> [from |-> iv[1], to |-> iv[2], doctor_id |-> d, status |-> st],
      booking |-> "unchecked", engine |-> "unchecked"] :
        ps \in CfTimes, svc \in ServiceIds, iv \in CfIntervals, d \in DoctorIds,
        st \in {"confirmed", "pending", "cancelled"}}

InitConflict ==
    /\ cf \in CfInputs
    /\ appointments =
          <<[doctor_id |-> cf.existing.doctor_id, service_id |-> 1, date |-> 0,
             start_utc_ts |-> CfUtc(cf.existing.from),
             end_utc_ts |-> CfUtc(cf.existing.to), status |-> cf.existing.status]>>
    /\ pc = [p \in Procs |-> "idle"]
    /\ req = [p \in Procs |-> NoReq]
    /\ resp = NoResp
    /\ eng = EngIdle
    /\ rsv = RsvIdle
    /\ race = RaceIdle
    /\ bot = BotIdle

\* the booking path: book_appointment for doctor 1 and the proposed interval
CfBook ==
    /\ cf.booking = "unchecked"
    /\ book_appointment_check(1, [doctor_id |-> 1, service_id |-> cf.proposed.service_id,
                                  date |-> 0,
                                  start_utc_ts |-> CfUtc(cf.proposed.start)])
    /\ cf' = [cf EXCEPT !.booking =
                IF pc'[1] = "book_commit" THEN "free" ELSE "conflict"]
    /\ UNCHANGED <<eng, rsv, race, bot>>

\* a clinic whose day holds exactly one candidate slot: the proposed interval
CfConfig ==
    LET from == parse_hm(cf.proposed.start)
        mins == Services[cf.proposed.service_id].duration_minutes
    IN EngConfig(Timing(cf.proposed.start, hm_of(from + mins), NoLunch),
                 NoTiming, TRUE,
                 [slot_interval_mins |-> mins, slots_per_hour |-> 4, buffer_mins |-> 0],
                 <<1>>)

\* the slot engine: is the proposed interval a free slot of doctor 1
CfSlots ==
    /\ cf.engine = "unchecked"
    /\ cf' = [cf EXCEPT !.engine =
                IF generate_free_slots_for_day(
                       CfConfig, 0, existing_appts_of(appointments, 1, 0), 1, 0) = <<>>
                THEN "conflict" ELSE "free"]
    /\ UNCHANGED <<main_vars, eng, rsv, race, bot>>

NextConflict == CfBook \/ CfSlots

SpecConflict == InitConflict /\ [][NextConflict]_vars

CfProposedEnd == end_ts_of(CfUtc(cf.proposed.start), cf.proposed.service_id)

\* the proposed and the existing interval overlap (half-open)
CfOverlap ==
    Overlap(CfUtc(cf.proposed.start), CfProposedEnd,
            CfUtc(cf.existing.from), CfUtc(cf.existing.to))

\* the existing appointment is an active one of the proposal's doctor
CfSameDoctorActive ==
    cf.existing.doctor_id = 1 /\ cf.existing.status \in ActiveStatuses

CfTouching ==
    \/ CfProposedEnd = CfUtc(cf.existing.from)
    \/ CfUtc(cf.existing.to) = CfUtc(cf.proposed.start)

\* C10: against an active appointment of the same doctor, the booking path
\* and the slot engine each report a conflict exactly when the two intervals
\* overlap as half-open intervals: [10:00,10:30) against [10:15,10:45)
\* conflicts, [10:00,10:15) against it is free, and intervals that only
\* touch at an endpoint never conflict.
C10_HalfOpenConflict ==
    CfSameDoctorActive =>
        /\ cf.booking # "unchecked" =>
              /\ (cf.booking = "conflict") <=> CfOverlap
              /\ CfTouching => cf.booking = "free"
        /\ cf.engine # "unchecked" =>
              /\ (cf.engine = "conflict") <=> CfOverlap
              /\ CfTouching => cf.engine = "free"

\* C10 witness: proposed [10:00,10:30) against the confirmed [10:15,10:45)
\* of the same doctor, reported as a conflict by both paths.
C10_Witness ==
    /\ cf.proposed = [start |-> <<10, 0>>, service_id |-> 2]
    /\ cf.existing = [from |-> <<10, 15>>, to |-> <<10, 45>>, doctor_id |-> 1,
                      status |-> "confirmed"]
    /\ cf.booking = "conflict"
    /\ cf.engine = "conflict"

---------------------------------------------------------------------------
(* services/conversation_manager.py and services/whatsapp_handler.py : the *)
(* WhatsApp booking conversation of one user.  A dict is a function whose  *)
(* domain is its set of keys; lists of options are modelled by their       *)
(* length.                                                                 *)

BookingStates ==
    {"start", "awaiting_doctor", "awaiting_service", "awaiting_date",
     "awaiting_slot", "completed"}

\* what a message carries and what the API answers while it is handled:
\* api "ok" (a list of `options` entries), or "error" (the call raises);
\* the number the user typed (0: nothing that selects an option); the date
\* parsed from the message; whether POST /appointments answers 201
NumOptions == 2

BookingInputs ==
    [api : {"ok", "error"}, options : {0, NumOptions}, selection : 0..NumOptions,
     date : Dates, booked : BOOLEAN]

\* dict.get(key, default)
dict_get(d, key, default) == IF key \in DOMAIN d THEN d[key] ELSE default

\* _parse_user_selection over a list of n options
parse_user_selection(selection, n) == IF selection \in 1..n THEN selection ELSE 0

\* _handle_unknown
handle_unknown == [message |-> "unknown", session_update |-> [k \in {} |-> ""]]

\* the except branch of _handle_booking
booking_unavailable ==
    [message |-> "unavailable",
     session_update |-> [context |-> [booking_state |-> "start"]]]

NoUpdate == [k \in {} |-> ""]

\* _handle_booking: the reply and the session update for a message whose
\* intent is book_appointment
handle_booking(context, in) ==
    LET conversation_state == dict_get(context, "booking_state", "start")
    IN IF conversation_state = "start"
       THEN IF in.api = "error" THEN booking_unavailable
            ELSE IF in.options = 0
            THEN [message |-> "no_doctors", session_update |-> NoUpdate]
            ELSE [message |-> "ask_doctor",
                  session_update |->
                     [context |-> [booking_state |-> "awaiting_doctor",
                                   doctors |-> in.options]]]
       ELSE IF conversation_state = "awaiting_doctor"
       THEN LET selected_doctor ==
                    parse_user_selection(in.selection, dict_get(context, "doctors", 0))
            IN IF selected_doctor = 0
               THEN [message |-> "invalid_selection", session_update |-> NoUpdate]
               ELSE IF in.api = "error" THEN booking_unavailable
               ELSE [message |-> "ask_service",
                     session_update |->
                        [context |-> [booking_state |-> "awaiting_service",
                                      selected_doctor_id |-> selected_doctor,
                                      services |-> in.options]]]
       ELSE IF conversation_state = "awaiting_service"
       THEN LET selected_service ==
                    parse_user_selection(in.selection, dict_get(context, "services", 0))
            IN IF selected_service = 0
               THEN [message |-> "invalid_selection", session_update |-> NoUpdate]
               ELSE [message |-> "ask_date",
                     session_update |->
                        [context |-> [booking_state |-> "awaiting_date",
                                      selected_service_id |-> selected_service]]]
       ELSE IF conversation_state = "awaiting_date"
       THEN IF "selected_doctor_id" \notin DOMAIN context \/ in.api = "error"
            THEN booking_unavailable
            ELSE IF in.options = 0
            THEN [message |-> "no_slots", session_update |-> NoUpdate]
            ELSE [message |-> "ask_slot",
                  session_update |->
                     [context |-> [booking_state |-> "awaiting_slot",
                                   available_slots |-> in.options,
                                   target_date |-> in.date]]]
       ELSE IF conversation_state = "awaiting_slot"
       THEN LET selected_slot ==
                    parse_user_selection(in.selection,
                                         dict_get(context, "available_slots", 0))
            IN IF selected_slot = 0
               THEN [message |-> "invalid_selection", session_update |-> NoUpdate]
               ELSE IF in.booked
               THEN [message |-> "confirmed",
                     session_update |->
                        [context |-> [booking_state |-> "completed",
                                      last_appointment_id |-> "apt_123"]]]
               ELSE [message |-> "booking_failed",
                     session_update |-> [context |-> [booking_state |-> "start"]]]
       ELSE handle_unknown

\* ConversationManager.process for the intents that are not book_appointment
OtherIntents == {"greeting", "check_availability", "cancel_appointment", "help"}

process_other(intent) ==
    IF intent = "greeting"
    THEN [message |-> "welcome",
          session_update |-> [context |-> [last_intent |-> "greeting"]]]
    ELSE [message |-> intent, session_update |-> NoUpdate]

\* _update_session: context.update(updates["context"])
update_session(context, updates) ==
    IF "context" \in DOMAIN updates THEN updates.context @@ context ELSE context

\* handle_message: process, update the session, send the reply
handle_message(response) ==
    bot' = [context |-> update_session(bot.context, response.session_update),
            sent |-> response.message]

\* a message classified as book_appointment
BookingMessage(in) ==
    /\ handle_message(handle_booking(bot.context, in))
    /\ UNCHANGED <<main_vars, eng, rsv, cf, race>>

\* a message classified as another intent
OtherMessage(intent) ==
    /\ handle_message(process_other(intent))
    /\ UNCHANGED <<main_vars, eng, rsv, cf, race>>

InitBot ==
    /\ MainIdle
    /\ eng = EngIdle
    /\ rsv = RsvIdle
    /\ cf = CfIdle
    /\ race = RaceIdle
    /\ bot = BotIdle

NextBot ==
    \/ \E in \in BookingInputs : BookingMessage(in)
    \/ \E intent \in OtherIntents : OtherMessage(intent)

SpecBot == InitBot /\ [][NextBot]_vars

\* the booking_state the handler reads from the session
BotState == dict_get(bot.context, "booking_state", "start")

BotCompletedForever ==
    [][BotState = "completed" => bot'.context.booking_state = "completed"]_vars

=============================================================================
